---- MODULE Spec2Model ----
(***************************************************************************)
(* Model of the 3D maze game: the maze generator (utils/mazeGenerator.ts)  *)
(* and the game session of the MazeGame component (lives, enemies,         *)
(* checkpoints, respawn timer, per-frame step).                            *)
(*                                                                         *)
(* Five state machines live in this module:                                *)
(*   GenSpec  - MazeGenerator.generate() run step by step on small grids,  *)
(*              every random outcome enumerated;                           *)
(*   MoveSpec - updateMovement() applied once from every collision-free    *)
(*              position of a lattice around the start, for every key      *)
(*              combination and a set of headings;                         *)
(*   PlaceSpec - createEnemies() and createCheckpoints() on draws from a   *)
(*              set of cells around the distance thresholds;               *)
(*   PatrolSpec - the patrol branch of updateEnemies() run frame after     *)
(*              frame on one enemy, for a set of patrol paths and speeds;  *)
(*   Spec     - one mounted MazeGame component on the 21x21 grid: pointer  *)
(*              lock, keys, frames, the clock, the respawn timer, reset    *)
(*              and the settings handlers that re-run the effect.          *)
(***************************************************************************)
EXTENDS Integers, Sequences, FiniteSets, TLC

VARIABLES
  gen,               \* the MazeGenerator object of GenSpec
  state,             \* the useState values of the component
  closure,           \* the useState values captured by the closures of the
                     \* effect that is mounted (animate, updateMovement, ...)
  camera,            \* cameraRef.current.position, <<x, z>>
  yaw,               \* cameraRef.current.rotation.y, as <<5 cos, 5 sin>>
  controlsIsLocked,  \* controlsRef.current.isLocked
  mazeRef,           \* mazeRef.current: the grid generate() returned, held as
                     \* the seed of the stream that generated it, 0 before
  exitPositionRef,   \* exitPositionRef.current
  enemiesRef,        \* enemiesRef.current
  checkpointsRef,    \* checkpointsRef.current
  playerPositionRef, \* playerPositionRef.current
  moveStateRef,      \* moveStateRef.current
  respawnTimerRef,   \* respawnTimerRef.current, 0 for null
  timers,            \* the pending window.setTimeout callbacks
  nextTimer,         \* the id the next window.setTimeout returns
  now,               \* Date.now(), in ms
  originalPosition,  \* the local originalPosition of updateMovement at the
                     \* return of the call MoveSpec makes, <<>> otherwise
  frames,            \* frames simulated so far
  inits,             \* re-runs of the effect so far
  loops,             \* animate callbacks that requestAnimationFrame holds:
                     \* the frame loops that are live
  drawn              \* the outcomes of Math.random() in the placement passes
                     \* of the last run of the effect: the draws of the
                     \* attempts of createEnemies, and for each checkpoint
                     \* the cells of its do-while

(***************************************************************************)
(* Bounds of the model.                                                    *)
(***************************************************************************)
\* largest width and height the generator is run with in GenSpec
MaxDim == 5

\* frames that pass the gate of animate in one behaviour of Spec
MaxFrames == 6

\* clock ticks of TickMs in one behaviour of Spec
MaxTicks == 9

\* re-runs of the effect (settings changes) in one behaviour of Spec
MaxInits == 1

\* updateMovement calls in one behaviour of MoveSpec
MaxProbes == 1

\* lattice points per axis of the start positions of MoveSpec
ProbePoints == 30

\* cells createEnemies draws in one behaviour of PlaceSpec
PlaceDraws == 3

(***************************************************************************)
(* MazeGenerator (src/src/utils/mazeGenerator.ts)                          *)
(*                                                                         *)
(* The generator object is the record gen:                                 *)
(*   width, height   the constructor arguments                             *)
(*   maze            the cells, keyed <<x, y>> (the code's maze[y][x]);    *)
(*                   1 is a wall, 0 is open                                *)
(*   stack           the call stack of carvePath: one frame per active     *)
(*                   call, with the directions its for-loop has left       *)
(*   args            the arguments of the carvePath call about to start    *)
(*   currentX/Y      the locals of ensureExitPath                          *)
(*   pc              start | call | loop | exit | done | threw             *)
(*   oob             a cell outside the height-by-width grid was written   *)
(***************************************************************************)
Dims == 0..MaxDim

GridCells(width, height) == (0..(width - 1)) \X (0..(height - 1))

\* constructor(width, height): this.maze = []
NewGenerator(width, height) ==
  [width |-> width, height |-> height, maze |-> <<>>, stack |-> <<>>,
   args |-> <<1, 1>>, currentX |-> 1, currentY |-> 1, pc |-> "start",
   oob |-> FALSE]

\* the directions literal of carvePath: North, East, South, West
directions == << <<0, -2>>, <<2, 0>>, <<0, 2>>, <<-2, 0>> >>

\* [d[i], d[j]] = [d[j], d[i]] on the 0-based indices i, j
Swap(d, i, j) == [d EXCEPT ![i + 1] = d[j + 1], ![j + 1] = d[i + 1]]

\* the Fisher-Yates loop of carvePath, i = 3, 2, 1, with j3, j2, j1 the
\* values of Math.floor(Math.random() * (i + 1))
Shuffle(d, j3, j2, j1) == Swap(Swap(Swap(d, 3, j3), 2, j2), 1, j1)

isValidCell(g, x, y) ==
  x > 0 /\ x < g.width - 1 /\ y > 0 /\ y < g.height - 1

\* this.maze[y][x] = 0.  A row index outside the array reads undefined and the
\* assignment throws a TypeError; a column index outside the row adds a
\* property to the row, which is then no longer a row of width cells.
SetOpen(g, x, y) ==
  IF y \notin 0..(g.height - 1)
  THEN [g EXCEPT !.pc = "threw"]
  ELSE IF x \notin 0..(g.width - 1)
       THEN [g EXCEPT !.oob = TRUE,
                      !.maze = [c \in (DOMAIN g.maze) \cup {<<x, y>>} |->
                                  IF c = <<x, y>> THEN 0 ELSE g.maze[c]]]
       ELSE [g EXCEPT !.maze[<<x, y>>] = 0]

\* the coordinate of the cell carved between the current cell and the
\* neighbour two cells away: x + dx / 2, y + dy / 2
BetweenOnto(p, d) == p + d

Between(p, d) == p + d \div 2

\* generate(), up to the call carvePath(1, 1)
generateBegin(g) ==
  [g EXCEPT !.maze = [c \in GridCells(g.width, g.height) |-> 1],
            !.args = <<1, 1>>, !.pc = "call"]

\* carvePath(x, y), up to its for-loop: mark the cell, shuffle the directions
carveEnter(g, j3, j2, j1) ==
  LET x == g.args[1]
      y == g.args[2]
      g1 == SetOpen(g, x, y)
  IN  IF g1.pc = "threw" THEN g1
      ELSE [g1 EXCEPT !.stack = Append(g1.stack,
                                  [x |-> x, y |-> y,
                                   dirs |-> Shuffle(directions, j3, j2, j1)]),
                      !.pc = "loop"]

\* one iteration of the for-loop of the innermost carvePath call
carveTryWide(g) ==
  LET n    == Len(g.stack)
      top  == g.stack[n]
      dx   == Head(top.dirs)[1]
      dy   == Head(top.dirs)[2]
      newX == top.x + dx
      newY == top.y + dy
      g1   == [g EXCEPT !.stack[n].dirs = Tail(top.dirs)]
  IN  IF isValidCell(g, newX, newY)
      THEN LET g2 == SetOpen(g1, Between(top.x, dx), Between(top.y, dy))
           IN  IF g2.pc = "threw" THEN g2
               ELSE IF g.maze[<<newX, newY>>] = 1
                    THEN [g2 EXCEPT !.args = <<newX, newY>>, !.pc = "call"]
                    ELSE g2
      ELSE g1

carveTry(g) ==
  LET n    == Len(g.stack)
      top  == g.stack[n]
      dx   == Head(top.dirs)[1]
      dy   == Head(top.dirs)[2]
      newX == top.x + dx
      newY == top.y + dy
      g1   == [g EXCEPT !.stack[n].dirs = Tail(top.dirs)]
  IN  IF isValidCell(g, newX, newY) /\ g.maze[<<newX, newY>>] = 1
      THEN LET g2 == SetOpen(g1, Between(top.x, dx), Between(top.y, dy))
           IN  IF g2.pc = "threw" THEN g2
               ELSE [g2 EXCEPT !.args = <<newX, newY>>, !.pc = "call"]
      ELSE g1

\* the innermost carvePath call returns; when it is carvePath(1, 1) itself,
\* generate() goes on to ensureExitPath()
carveReturn(g) ==
  LET n == Len(g.stack)
  IN  IF n = 1
      THEN [g EXCEPT !.stack = <<>>, !.currentX = 1, !.currentY = 1,
                     !.pc = "exit"]
      ELSE [g EXCEPT !.stack = SubSeq(g.stack, 1, n - 1)]

\* const exitX = this.width - 2; const exitY = this.height - 2
exitXOnBorder(g) == g.width - 1

exitX(g) == g.width - 2

exitYOnBorder(g) == g.height - 1

exitY(g) == g.height - 2

\* one test of the while-loop of ensureExitPath and, when it is true, the
\* iteration; when it is false, the final write and the return of generate().
\* r is the outcome of Math.random() > 0.3
exitStep(g, r) ==
  LET ex == exitX(g)
      ey == exitY(g)
  IN  IF g.currentX < ex \/ g.currentY < ey
      THEN LET g1 == SetOpen(g, g.currentX, g.currentY)
           IN  IF g1.pc = "threw" THEN g1
               ELSE IF g.currentX < ex /\ r
                    THEN [g1 EXCEPT !.currentX = g.currentX + 1]
                    ELSE IF g.currentY < ey
                         THEN [g1 EXCEPT !.currentY = g.currentY + 1]
                         ELSE IF g.currentX < ex
                              THEN [g1 EXCEPT !.currentX = g.currentX + 1]
                              ELSE g1
      ELSE LET g1 == SetOpen(g, ex, ey)
           IN  IF g1.pc = "threw" THEN g1 ELSE [g1 EXCEPT !.pc = "done"]

\* Math.random() of a whole run of generate(), as a pseudo-random stream: the
\* successor of the stream value r
NextRandom(r) == (r * 75 + 74) % 65537

\* one step of generate(), its random outcomes taken from the stream value
RunStep(s) ==
  LET g == s.g
      r == s.r
  IN  IF g.pc \in {"done", "threw"} THEN s
      ELSE [g |-> CASE g.pc = "start" -> generateBegin(g)
                    [] g.pc = "call"  ->
                         carveEnter(g, r % 4, (r \div 4) % 3, (r \div 16) % 2)
                    [] g.pc = "loop"  ->
                         IF g.stack[Len(g.stack)].dirs # <<>>
                         THEN carveTry(g) ELSE carveReturn(g)
                    [] g.pc = "exit"  -> exitStep(g, (r % 10) >= 3),
            r |-> NextRandom(r)]

\* up to 2^k steps of generate()
RECURSIVE RunSteps(_, _)
RunSteps(s, k) ==
  IF k = 0 THEN RunStep(s)
  ELSE LET half == RunSteps(s, k - 1)
       IN  IF half.g.pc \in {"done", "threw"} THEN half
           ELSE RunSteps(half, k - 1)

\* new MazeGenerator(width, height).generate(), on the stream started at seed
generate(width, height, seed) ==
  RunSteps([g |-> NewGenerator(width, height), r |-> seed], 10).g.maze

(***************************************************************************)
(* MazeGame component (src/unnamed/part_000, lines 1 to 1453)              *)
(*                                                                         *)
(* Units: world lengths are integers in thousandths of a world unit, maze  *)
(* coordinates (world / WALL_SIZE + MAZE_SIZE / 2) are integers in         *)
(* thousandths of a cell, times are in ms.  A heading is the pair          *)
(* <<5 cos, 5 sin>> of the camera's rotation about the vertical axis.      *)
(***************************************************************************)
MAZE_SIZE == 21

\* WALL_SIZE = 2 world units
WALL_SIZE == 2000

\* MOVE_SPEED = 0.08 world units per frame
MOVE_SPEED == 80

\* ENEMY_SPEED = 0.02 world units per frame
ENEMY_SPEED == 20

ENEMY_ATTACK_RANGE == 2

ENEMY_ATTACK_COOLDOWN == 3000

ENEMY_ATTACK_DURATION == 1000

RESPAWN_DELAY == 2000

ENEMY_COUNT == 4

MIN_SPAWN_DISTANCE == 8

\* COLLISION_RADIUS = 0.25 cells
COLLISION_RADIUS == 250

\* the useState initial values
InitialState ==
  [gameWon |-> FALSE, gameOver |-> FALSE, isLocked |-> FALSE,
   graphicsQuality |-> "medium", timeOfDay |-> "day", weather |-> "sunny",
   lives |-> 3, currentCheckpoint |-> <<1, 1>>, isRespawning |-> FALSE,
   score |-> 0]

\* the initial value of moveStateRef
NoKeys ==
  [forward |-> FALSE, backward |-> FALSE, left |-> FALSE, right |-> FALSE]

\* a / b rounded to the nearest integer, b > 0
RoundDiv(a, b) == (2 * a + b) \div (2 * b)

\* Math.floor and Math.round of a maze coordinate
Floor(m) == m \div 1000

Round(m) == (m + 500) \div 1000

\* (worldPos + MAZE_SIZE * WALL_SIZE / 2) / WALL_SIZE
worldToMaze(worldPos) ==
  ((worldPos + (MAZE_SIZE * WALL_SIZE) \div 2) * 1000) \div WALL_SIZE

\* (cell - MAZE_SIZE / 2) * WALL_SIZE: where createMaze, createEnemies,
\* createCheckpoints and respawnPlayer put the centre of a cell
mazeToWorld(cell) == ((2 * cell - MAZE_SIZE) * WALL_SIZE) \div 2

\* the grid position updateMovement and updateEnemies compute from a world
\* position: Math.round of both maze coordinates
GridPosition(p) == <<Round(worldToMaze(p[1])), Round(worldToMaze(p[2]))>>

\* the square of the Euclidean distance of two grid positions
DistSq(p, q) ==
  (p[1] - q[1]) * (p[1] - q[1]) + (p[2] - q[2]) * (p[2] - q[2])

\* checkCollision(position)
checkCollision(maze, position) ==
  LET mazeX  == worldToMaze(position[1])
      mazeZ  == worldToMaze(position[2])
      margin == 100
      checkPositions ==
        { <<mazeX, mazeZ>>,
          <<mazeX + COLLISION_RADIUS, mazeZ>>,
          <<mazeX - COLLISION_RADIUS, mazeZ>>,
          <<mazeX, mazeZ + COLLISION_RADIUS>>,
          <<mazeX, mazeZ - COLLISION_RADIUS>> }
  IN  \/ mazeX < margin \/ mazeX >= MAZE_SIZE * 1000 - margin
      \/ mazeZ < margin \/ mazeZ >= MAZE_SIZE * 1000 - margin
      \/ \E checkPos \in checkPositions :
           LET gridX == Floor(checkPos[1])
               gridZ == Floor(checkPos[2])
           IN  /\ gridX >= 0 /\ gridX < MAZE_SIZE
               /\ gridZ >= 0 /\ gridZ < MAZE_SIZE
               /\ maze[<<gridX, gridZ>>] = 1

\* the moveVector of updateMovement before the rotation: the key intents,
\* normalized and multiplied by MOVE_SPEED
moveVector(ms) ==
  LET x == (IF ms.right THEN 1 ELSE 0) - (IF ms.left THEN 1 ELSE 0)
      z == (IF ms.backward THEN 1 ELSE 0) - (IF ms.forward THEN 1 ELSE 0)
  IN  IF x # 0 /\ z # 0
      THEN <<RoundDiv(x * MOVE_SPEED * 7071, 10000),
             RoundDiv(z * MOVE_SPEED * 7071, 10000)>>
      ELSE <<x * MOVE_SPEED, z * MOVE_SPEED>>

\* moveVector.applyEuler(new THREE.Euler(0, camera.rotation.y, 0))
applyEuler(v, heading) ==
  <<RoundDiv(v[1] * heading[1] + v[2] * heading[2], 5),
    RoundDiv(v[2] * heading[1] - v[1] * heading[2], 5)>>

\* the two commits of updateMovement: each axis keeps its coordinate when its
\* own candidate collides and takes the candidate's otherwise
resolveMoveBlocked(original, mv, hitX, hitZ) ==
  IF hitX \/ hitZ THEN original
  ELSE <<original[1] + mv[1], original[2] + mv[2]>>

resolveMove(original, mv, hitX, hitZ) ==
  <<IF hitX THEN original[1] ELSE original[1] + mv[1],
    IF hitZ THEN original[2] ELSE original[2] + mv[2]>>

\* updateMovement(): the camera position and playerPositionRef after the
\* call, and its local originalPosition when it returns
updateMovement(cam, heading, ms, maze, playerPos, respawning, lastOriginal) ==
  LET v == moveVector(ms)
  IN  IF respawning \/ v = <<0, 0>>
      THEN [camera |-> cam, playerPosition |-> playerPos,
            originalPosition |-> lastOriginal]
      ELSE LET mv    == applyEuler(v, heading)
               testX == <<cam[1] + mv[1], cam[2]>>
               testZ == <<cam[1], cam[2] + mv[2]>>
               pos   == resolveMove(cam, mv, checkCollision(maze, testX),
                                    checkCollision(maze, testZ))
           IN  [camera |-> pos, playerPosition |-> GridPosition(pos),
                originalPosition |-> cam]

\* the largest k in lo..hi with k * k <= n
RECURSIVE SqrtSearch(_, _, _)
SqrtSearch(n, lo, hi) ==
  IF lo >= hi THEN lo
  ELSE LET mid == (lo + hi + 1) \div 2
       IN  IF mid * mid <= n THEN SqrtSearch(n, mid, hi)
           ELSE SqrtSearch(n, lo, mid - 1)

\* Math.sqrt, rounded down
Sqrt(n) == SqrtSearch(n, 0, 46340)

\* the patrol part of the forEach body of updateEnemies
patrolShort(enemy) ==
  IF Len(enemy.patrolPath) > 0
  THEN LET targetPos == enemy.patrolPath[enemy.currentPathIndex + 1]
           dx == mazeToWorld(targetPos[1]) - enemy.mesh[1]
           dz == mazeToWorld(targetPos[2]) - enemy.mesh[2]
           distance == Sqrt(dx * dx + dz * dz)
       IN  IF dx * dx + dz * dz < 200 * 200
           THEN [enemy EXCEPT !.currentPathIndex =
                                 (@ + 1) % Len(enemy.patrolPath)]
           ELSE IF dx * dx + dz * dz < WALL_SIZE * WALL_SIZE
           THEN enemy
           ELSE LET mesh == <<enemy.mesh[1] + RoundDiv(dx * enemy.speed, distance),
                              enemy.mesh[2] + RoundDiv(dz * enemy.speed, distance)>>
                IN  [enemy EXCEPT !.mesh = mesh, !.position = GridPosition(mesh)]
  ELSE enemy

patrol(enemy) ==
  IF Len(enemy.patrolPath) > 0
  THEN LET targetPos == enemy.patrolPath[enemy.currentPathIndex + 1]
           dx == mazeToWorld(targetPos[1]) - enemy.mesh[1]
           dz == mazeToWorld(targetPos[2]) - enemy.mesh[2]
           distance == Sqrt(dx * dx + dz * dz)
       IN  IF dx * dx + dz * dz < 200 * 200
           THEN [enemy EXCEPT !.currentPathIndex =
                                 (@ + 1) % Len(enemy.patrolPath)]
           ELSE LET mesh == <<enemy.mesh[1] + RoundDiv(dx * enemy.speed, distance),
                              enemy.mesh[2] + RoundDiv(dz * enemy.speed, distance)>>
                IN  [enemy EXCEPT !.mesh = mesh, !.position = GridPosition(mesh)]
  ELSE enemy

\* the attack part of the forEach body of updateEnemies, entered when the
\* captured isRespawning is false: the enemy after it, and whether it called
\* attackPlayer()
attackEarly(enemy, playerPos, currentTime) ==
  IF DistSq(playerPos, enemy.position) < ENEMY_ATTACK_RANGE * ENEMY_ATTACK_RANGE
  THEN IF ~enemy.isAttacking
          /\ currentTime - enemy.lastAttack > ENEMY_ATTACK_COOLDOWN
       THEN [enemy |-> [enemy EXCEPT !.attackStartTime = currentTime,
                                     !.lastAttack = currentTime],
             hit |-> TRUE]
       ELSE [enemy |-> [enemy EXCEPT !.isAttacking = FALSE], hit |-> FALSE]
  ELSE [enemy |-> [enemy EXCEPT !.isAttacking = FALSE], hit |-> FALSE]

attackHeld(enemy, playerPos, currentTime) ==
  LET started ==
        IF DistSq(playerPos, enemy.position)
             < ENEMY_ATTACK_RANGE * ENEMY_ATTACK_RANGE
           /\ ~enemy.isAttacking
           /\ currentTime - enemy.lastAttack > ENEMY_ATTACK_COOLDOWN
        THEN [enemy EXCEPT !.isAttacking = TRUE,
                           !.attackStartTime = currentTime]
        ELSE enemy
  IN  IF DistSq(playerPos, enemy.position)
           < ENEMY_ATTACK_RANGE * ENEMY_ATTACK_RANGE
         /\ started.isAttacking
         /\ currentTime - started.attackStartTime >= ENEMY_ATTACK_DURATION
      THEN [enemy |-> [started EXCEPT !.lastAttack = currentTime,
                                      !.isAttacking = FALSE],
            hit |-> TRUE]
      ELSE [enemy |-> started, hit |-> FALSE]

attack(enemy, playerPos, currentTime) ==
  IF DistSq(playerPos, enemy.position) < ENEMY_ATTACK_RANGE * ENEMY_ATTACK_RANGE
  THEN LET started ==
             IF ~enemy.isAttacking
                /\ currentTime - enemy.lastAttack > ENEMY_ATTACK_COOLDOWN
             THEN [enemy EXCEPT !.isAttacking = TRUE,
                                !.attackStartTime = currentTime]
             ELSE enemy
       IN  IF started.isAttacking
              /\ currentTime - started.attackStartTime >= ENEMY_ATTACK_DURATION
           THEN [enemy |-> [started EXCEPT !.lastAttack = currentTime,
                                           !.isAttacking = FALSE],
                 hit |-> TRUE]
           ELSE [enemy |-> started, hit |-> FALSE]
  ELSE [enemy |-> [enemy EXCEPT !.isAttacking = FALSE], hit |-> FALSE]

(***************************************************************************)
(* The functions below run inside a frame on the record s of what a frame  *)
(* reads and writes besides the camera:                                    *)
(*   state, closure, enemies, checkpoints, timers, respawnTimerRef,        *)
(*   nextTimer, now                                                        *)
(***************************************************************************)
\* respawnPlayer(): the guard reads the captured isRespawning; the callback
\* keeps the currentCheckpoint captured with it
respawnPlayerKeeping(s) ==
  IF s.closure.isRespawning THEN s
  ELSE [s EXCEPT !.state.isRespawning = TRUE,
                 !.timers = @ \cup
                              {[id |-> s.nextTimer,
                                due |-> s.now + RESPAWN_DELAY,
                                checkpoint |-> s.closure.currentCheckpoint]},
                 !.respawnTimerRef = s.nextTimer,
                 !.nextTimer = @ + 1]

respawnPlayer(s) ==
  IF s.closure.isRespawning THEN s
  ELSE [s EXCEPT !.state.isRespawning = TRUE,
                 !.timers = {t \in @ : t.id # s.respawnTimerRef} \cup
                              {[id |-> s.nextTimer,
                                due |-> s.now + RESPAWN_DELAY,
                                checkpoint |-> s.closure.currentCheckpoint]},
                 !.respawnTimerRef = s.nextTimer,
                 !.nextTimer = @ + 1]

\* attackPlayer(): newLives is computed from the captured lives
attackPlayer(s) ==
  IF s.closure.isRespawning THEN s
  ELSE LET newLives == s.closure.lives - 1
           s1 == [s EXCEPT !.state.lives = newLives]
       IN  IF newLives <= 0 THEN [s1 EXCEPT !.state.gameOver = TRUE]
           ELSE respawnPlayer(s1)

\* enemiesRef.current.forEach(...) of updateEnemies, from the i-th enemy on
RECURSIVE updateEnemiesFrom(_, _, _)
updateEnemiesFrom(s, i, playerPos) ==
  IF i > Len(s.enemies) THEN s
  ELSE LET moved == patrol(s.enemies[i])
           r  == IF s.closure.isRespawning
                 THEN [enemy |-> moved, hit |-> FALSE]
                 ELSE attack(moved, playerPos, s.now)
           s1 == [s EXCEPT !.enemies[i] = r.enemy]
       IN  updateEnemiesFrom(IF r.hit THEN attackPlayer(s1) ELSE s1,
                             i + 1, playerPos)

updateEnemies(s, playerPos) == updateEnemiesFrom(s, 1, playerPos)

\* the two tests of checkCheckpoints on one checkpoint
triggersAgain(checkpoint, playerPos) ==
  DistSq(playerPos, checkpoint.position) < 2 * 2

triggers(checkpoint, playerPos) ==
  ~checkpoint.activated /\ DistSq(playerPos, checkpoint.position) < 2 * 2

\* checkpointsRef.current.forEach(...) of checkCheckpoints, from the i-th on
RECURSIVE checkCheckpointsFrom(_, _, _)
checkCheckpointsFrom(s, i, playerPos) ==
  IF i > Len(s.checkpoints) THEN s
  ELSE LET checkpoint == s.checkpoints[i]
       IN  checkCheckpointsFrom(
             IF triggers(checkpoint, playerPos)
             THEN [s EXCEPT !.checkpoints[i].activated = TRUE,
                            !.state.currentCheckpoint = checkpoint.position,
                            !.state.score = @ + 100]
             ELSE s,
             i + 1, playerPos)

checkCheckpoints(s, playerPos) == checkCheckpointsFrom(s, 1, playerPos)

\* distance < 1.5 of checkWinCondition, as (2 * distance)^2 < 3^2
nearExitWide(playerPos, exitPos) == 4 * DistSq(playerPos, exitPos) < 5 * 5

nearExit(playerPos, exitPos) == 4 * DistSq(playerPos, exitPos) < 3 * 3

\* checkWinCondition(): gameWon, score and lives are the captured ones
checkWinCondition(s, playerPos, exitPos) ==
  IF nearExit(playerPos, exitPos) /\ ~s.closure.gameWon
  THEN [s EXCEPT !.state.gameWon = TRUE,
                 !.state.score = s.closure.score + s.closure.lives * 50]
  ELSE s

(***************************************************************************)
(* What the effect builds: exit position, enemies, checkpoints.            *)
(***************************************************************************)
\* the cells the exit scan visits, in its order: x and z from MAZE_SIZE - 2
\* down to MAZE_SIZE - 4, z the inner loop
exitScan ==
  [i \in 1..9 |-> <<MAZE_SIZE - 2 - ((i - 1) \div 3),
                  MAZE_SIZE - 2 - ((i - 1) % 3)>>]

\* the exit scan: the first open cell of it, or the old value when there is none
findExit(maze, old) ==
  IF \E i \in 1..9 : maze[exitScan[i]] = 0
  THEN exitScan[CHOOSE i \in 1..9 :
                  /\ maze[exitScan[i]] = 0
                  /\ \A j \in 1..(i - 1) : maze[exitScan[j]] # 0]
  ELSE old

\* isValidSpawnLocation(x, z, maze, usedPositions)
isValidSpawnLocationApart(x, z, maze, usedPositions) ==
  /\ maze[<<x, z>>] # 1
  /\ ~(DistSq(<<x, z>>, <<1, 1>>) < MIN_SPAWN_DISTANCE * MIN_SPAWN_DISTANCE)

isValidSpawnLocation(x, z, maze, usedPositions) ==
  /\ maze[<<x, z>>] # 1
  /\ ~(DistSq(<<x, z>>, <<1, 1>>) < MIN_SPAWN_DISTANCE * MIN_SPAWN_DISTANCE)
  /\ \A i \in 1..Len(usedPositions) :
       ~(DistSq(<<x, z>>, usedPositions[i]) < 4 * 4)

\* the directions literal of createEnemies: North, East, South, West
patrolDirections == << <<0, -1>>, <<1, 0>>, <<0, 1>>, <<-1, 0>> >>

Min(a, b) == IF a < b THEN a ELSE b

Max(a, b) == IF a > b THEN a ELSE b

\* the patrol loop of createEnemies: picks is the sequence of the three
\* <<direction index, distance>> draws
RECURSIVE patrolPath(_, _, _, _)
patrolPath(maze, x, z, picks) ==
  IF picks = <<>> THEN << <<x, z>> >>
  ELSE LET n    == Len(picks)
           rest == patrolPath(maze, x, z, SubSeq(picks, 1, n - 1))
           direction == patrolDirections[picks[n][1]]
           distance  == picks[n][2]
           newX == Max(1, Min(MAZE_SIZE - 2, x + direction[1] * distance))
           newZ == Max(1, Min(MAZE_SIZE - 2, z + direction[2] * distance))
       IN  IF maze[<<newX, newZ>>] = 0 THEN Append(rest, <<newX, newZ>>)
           ELSE rest

\* const maxAttempts of createEnemies
maxAttempts == 200

\* one iteration of the while-loop of createEnemies with the draw d, when
\* the condition of the loop holds; loop holds enemies and attempts
enemyAttempt(maze, loop, d) ==
  IF ~(Len(loop.enemies) < ENEMY_COUNT /\ loop.attempts < maxAttempts)
  THEN loop
  ELSE LET usedPositions == [i \in 1..Len(loop.enemies) |->
                               loop.enemies[i].patrolPath[1]]
       IN  IF ~isValidSpawnLocation(d.x, d.z, maze, usedPositions)
           THEN [loop EXCEPT !.attempts = @ + 1]
           ELSE [enemies |->
                   Append(loop.enemies,
                     [mesh |-> <<mazeToWorld(d.x), mazeToWorld(d.z)>>,
                      position |-> <<d.x, d.z>>,
                      lastAttack |-> 0,
                      patrolPath |-> patrolPath(maze, d.x, d.z, d.patrol),
                      currentPathIndex |-> 0,
                      speed |-> d.speed,
                      isAttacking |-> FALSE,
                      attackStartTime |-> 0]),
                 attempts |-> loop.attempts + 1]

\* the while-loop of createEnemies over the draws of its attempts, the first
\* half of them and then the rest; the attempts after the last draw of the
\* sequence draw no valid cell
RECURSIVE createEnemiesFrom(_, _, _)
createEnemiesFrom(maze, draws, loop) ==
  IF draws = <<>> THEN loop
  ELSE IF Len(draws) = 1 THEN enemyAttempt(maze, loop, draws[1])
  ELSE LET n    == Len(draws)
           half == createEnemiesFrom(maze, SubSeq(draws, 1, n \div 2), loop)
       IN  IF ~(Len(half.enemies) < ENEMY_COUNT /\ half.attempts < maxAttempts)
           THEN half
           ELSE createEnemiesFrom(maze, SubSeq(draws, n \div 2 + 1, n), half)

createEnemies(maze, draws) ==
  createEnemiesFrom(maze, draws, [enemies |-> <<>>, attempts |-> 0]).enemies

\* one iteration of the do-while of createCheckpoints with the cell drawn,
\* unless the loop has ended; loop holds attempts, the last cell drawn and
\* whether the condition of the loop has failed
checkpointAttempt(maze, loop, cell, usedPositions) ==
  IF loop.ended THEN loop
  ELSE [attempts |-> loop.attempts + 1,
        cell |-> cell,
        ended |-> ~((maze[cell] = 1
                     \/ ~isValidSpawnLocation(cell[1], cell[2], maze,
                                              usedPositions))
                    /\ loop.attempts + 1 < 100)]

\* the do-while of createCheckpoints over the cells it draws for one
\* checkpoint, the first half of them and then the rest
RECURSIVE checkpointAttempts(_, _, _, _)
checkpointAttempts(maze, cells, usedPositions, loop) ==
  IF cells = <<>> THEN loop
  ELSE IF Len(cells) = 1
  THEN checkpointAttempt(maze, loop, cells[1], usedPositions)
  ELSE LET n    == Len(cells)
           half == checkpointAttempts(maze, SubSeq(cells, 1, n \div 2),
                                      usedPositions, loop)
       IN  IF half.ended THEN half
           ELSE checkpointAttempts(maze, SubSeq(cells, n \div 2 + 1, n),
                                   usedPositions, half)

\* the for-loop of createCheckpoints: draws holds, for each of the three
\* checkpoints, the cells its do-while draws; the attempts after the last
\* cell of a sequence draw no valid cell, and the do-while ends at 100
RECURSIVE createCheckpointsFrom(_, _, _, _)
createCheckpointsFrom(maze, draws, checkpoints, usedPositions) ==
  IF draws = <<>> THEN checkpoints
  ELSE LET loop == checkpointAttempts(maze, Head(draws), usedPositions,
                     [attempts |-> 0, cell |-> <<0, 0>>, ended |-> FALSE])
           attempts == IF loop.ended THEN loop.attempts ELSE 100
       IN  IF attempts >= 100
           THEN createCheckpointsFrom(maze, Tail(draws), checkpoints, usedPositions)
           ELSE createCheckpointsFrom(maze, Tail(draws),
                  Append(checkpoints,
                         [position |-> loop.cell, activated |-> FALSE]),
                  Append(usedPositions, loop.cell))

createCheckpoints(maze, draws) ==
  createCheckpointsFrom(maze, draws, <<>>, << <<1, 1>> >>)

(***************************************************************************)
(* Inputs of the session.                                                  *)
(***************************************************************************)
\* the clock is read at multiples of the attack duration
TickMs == ENEMY_ATTACK_DURATION

\* Date.now() when the component mounts: later than the attack cooldown, so
\* that currentTime - 0 > ENEMY_ATTACK_COOLDOWN from the first frame on
StartTime == ENEMY_ATTACK_COOLDOWN + TickMs

\* the heading of a new camera: rotation.y = 0, forward is north (-z)
NoTurn == <<5, 0>>

\* a quarter turn to the right: forward is east (+x)
FacingEast == <<0, -5>>

\* the headings of MoveSpec: multiples of a quarter turn, and those turned
\* by the angle of cosine 4/5
Headings ==
  { <<5, 0>>, <<0, 5>>, <<-5, 0>>, <<0, -5>>,
    <<4, 3>>, <<-3, 4>>, <<-4, -3>>, <<3, -4>> }

\* event.code of the key events of Spec, and the intent each sets
KeyCodes == {"KeyW"}

KeyIntent(code) ==
  CASE code \in {"KeyW", "ArrowUp"}    -> "forward"
    [] code \in {"KeyA", "ArrowLeft"}  -> "left"
    [] code \in {"KeyS", "ArrowDown"}  -> "backward"
    [] code \in {"KeyD", "ArrowRight"} -> "right"

\* <<offsetX, offsetZ>> of the respawn callback, each drawn as
\* (Math.random() - 0.5) * 0.5
RespawnOffsets == {<<-200, -200>>, <<200, 200>>}

\* the values the settings selects are changed to
GraphicsQualities == {"medium", "high"}

TimesOfDay == {"day", "night"}

WeatherTypes == {"sunny", "rainy"}

\* one draw of createEnemies: the cell, the three patrol picks, the speed
EnemyDraw(x, z, picks) ==
  [x |-> x, z |-> z, patrol |-> picks, speed |-> ENEMY_SPEED]

\* the random outcomes of one run of the effect: the stream of generate(),
\* the draws of createEnemies, the draws of createCheckpoints.
\* In the first, (5,5) is too near the start and (13,11) too near (11,11),
\* (15,11) is exactly 4 cells from (11,11) and patrols towards it;
\* in the second the enemy's waypoints are all clamped onto its own cell.
Scenes ==
  { [seed |-> 1,
     enemies |-> << EnemyDraw(5, 5, << <<1, 3>>, <<2, 3>>, <<3, 3>> >>),
                    EnemyDraw(11, 11, << <<1, 3>>, <<2, 4>>, <<4, 6>> >>),
                    EnemyDraw(13, 11, << <<1, 3>>, <<2, 3>>, <<3, 3>> >>),
                    EnemyDraw(15, 11, << <<4, 3>>, <<4, 4>>, <<2, 3>> >>),
                    EnemyDraw(19, 19, << <<1, 3>>, <<4, 4>>, <<2, 5>> >>) >>,
     checkpoints |-> << << <<5, 5>>, <<11, 11>> >>, <<>>, << <<17, 19>> >> >>],
    [seed |-> 2,
     enemies |-> << EnemyDraw(19, 19, << <<2, 3>>, <<3, 4>>, <<2, 6>> >>) >>,
     checkpoints |-> << << <<19, 17>> >>, <<>>, <<>> >>] }

\* what the placement passes of a scene draw
SceneDraws(scene) ==
  [enemies |-> scene.enemies, checkpoints |-> scene.checkpoints]

\* the passes have not run, or no draw of theirs was a valid cell
NoDraws == [enemies |-> <<>>, checkpoints |-> <<>>]

\* the grids of the scenes, by seed
Mazes == [seed \in {scene.seed : scene \in Scenes} |->
            generate(MAZE_SIZE, MAZE_SIZE, seed)]

\* the grid mazeRef holds, keyed <<x, z>> (the code's maze[z][x])
Grid(ref) == Mazes[ref]

\* the rest state of the generator while the component is modelled
IdleGenerator == NewGenerator(0, 0)

vars ==
  <<gen, state, closure, camera, yaw, controlsIsLocked, mazeRef,
    exitPositionRef, enemiesRef, checkpointsRef, playerPositionRef,
    moveStateRef, respawnTimerRef, timers, nextTimer, now, originalPosition,
    frames, inits, loops, drawn>>

sessionVars ==
  <<state, closure, camera, yaw, controlsIsLocked, mazeRef,
    exitPositionRef, enemiesRef, checkpointsRef, playerPositionRef,
    moveStateRef, respawnTimerRef, timers, nextTimer, now, originalPosition,
    frames, inits, loops, drawn>>

\* the component is not mounted
Unmounted ==
  /\ state = InitialState /\ closure = InitialState
  /\ camera = <<0, 0>> /\ yaw = NoTurn /\ controlsIsLocked = FALSE
  /\ mazeRef = 0 /\ exitPositionRef = <<0, 0>>
  /\ enemiesRef = <<>> /\ checkpointsRef = <<>>
  /\ playerPositionRef = <<1, 1>> /\ moveStateRef = NoKeys
  /\ respawnTimerRef = 0 /\ timers = {} /\ nextTimer = 1
  /\ now = StartTime /\ originalPosition = <<>> /\ frames = 0 /\ inits = 0
  /\ loops = 0 /\ drawn = NoDraws


(***************************************************************************)
(* GenSpec: generate() on every width and height up to MaxDim.             *)
(***************************************************************************)
GenInit == Unmounted /\ \E w \in Dims, h \in Dims : gen = NewGenerator(w, h)

Generate ==
  /\ gen.pc = "start"
  /\ gen' = generateBegin(gen)
  /\ UNCHANGED sessionVars

CarveEnter ==
  /\ gen.pc = "call"
  /\ \E j3 \in 0..3, j2 \in 0..2, j1 \in 0..1 : gen' = carveEnter(gen, j3, j2, j1)
  /\ UNCHANGED sessionVars

CarveTry ==
  /\ gen.pc = "loop"
  /\ gen.stack[Len(gen.stack)].dirs # <<>>
  /\ gen' = carveTry(gen)
  /\ UNCHANGED sessionVars

CarveReturn ==
  /\ gen.pc = "loop"
  /\ gen.stack[Len(gen.stack)].dirs = <<>>
  /\ gen' = carveReturn(gen)
  /\ UNCHANGED sessionVars

ExitStep ==
  /\ gen.pc = "exit"
  /\ \E r \in BOOLEAN : gen' = exitStep(gen, r)
  /\ UNCHANGED sessionVars

GenNext == Generate \/ CarveEnter \/ CarveTry \/ CarveReturn \/ ExitStep

GenSpec == GenInit /\ [][GenNext]_vars

(***************************************************************************)
(* MoveSpec: updateMovement() from the positions of a lattice around the   *)
(* start that checkCollision accepts, for every combination of the four    *)
(* key intents and every heading of Headings, on the grid of every scene.  *)
(***************************************************************************)
\* the world coordinates of the lattice: 0.04 cells apart, from 0.3 cells
\* west (north) of the centre of cell 11
ProbeCoords == {mazeToWorld(11) - 600 + 80 * k : k \in 0..(ProbePoints - 1)}

MoveInit ==
  \E scene \in Scenes, x \in ProbeCoords, z \in ProbeCoords,
     heading \in Headings, forward \in BOOLEAN, backward \in BOOLEAN,
     left \in BOOLEAN, right \in BOOLEAN :
    LET maze == Mazes[scene.seed]
    IN  /\ ~checkCollision(maze, <<x, z>>)
        /\ gen = IdleGenerator
        /\ state = [InitialState EXCEPT !.isLocked = TRUE]
        /\ closure = InitialState
        /\ camera = <<x, z>> /\ yaw = heading
        /\ controlsIsLocked = TRUE
        /\ mazeRef = scene.seed
        /\ exitPositionRef = findExit(maze, <<0, 0>>)
        /\ enemiesRef = <<>> /\ checkpointsRef = <<>>
        /\ playerPositionRef = GridPosition(<<x, z>>)
        /\ moveStateRef = [forward |-> forward, backward |-> backward,
                           left |-> left, right |-> right]
        /\ respawnTimerRef = 0 /\ timers = {} /\ nextTimer = 1
        /\ now = StartTime /\ originalPosition = <<>> /\ frames = 0 /\ inits = 0
        /\ loops = 1 /\ drawn = NoDraws

\* one call of updateMovement()
UpdateMovement ==
  /\ frames < MaxProbes
  /\ LET mv == updateMovement(camera, yaw, moveStateRef, Grid(mazeRef),
                              playerPositionRef, closure.isRespawning,
                              originalPosition)
     IN  /\ camera' = mv.camera
         /\ playerPositionRef' = mv.playerPosition
         /\ originalPosition' = mv.originalPosition
  /\ frames' = frames + 1
  /\ UNCHANGED <<gen, state, closure, yaw, controlsIsLocked, mazeRef,
                 exitPositionRef, enemiesRef, checkpointsRef, moveStateRef,
                 respawnTimerRef, timers, nextTimer, now, inits, loops, drawn>>

MoveSpec == MoveInit /\ [][UpdateMovement]_vars

(***************************************************************************)
(* PlaceSpec: the two placement passes of the effect, on the grid of every *)
(* scene, every draw taken from PlaceCells.                                *)
(***************************************************************************)
\* the cells drawn: (5,5) is nearer to (1,1) than MIN_SPAWN_DISTANCE, (9,1)
\* is at that distance exactly, (10,10) is a wall, (13,11) is 2 cells and
\* (15,11) exactly 4 cells from (11,11)
PlaceCells ==
  { <<5, 5>>, <<9, 1>>, <<10, 10>>, <<11, 11>>, <<13, 11>>, <<15, 11>>,
    <<19, 19>> }

\* the effect has generated the grid and found the exit, and has not placed
\* anything yet
PlaceInit ==
  \E scene \in Scenes :
    LET maze == Mazes[scene.seed]
    IN  /\ gen = IdleGenerator
        /\ state = InitialState /\ closure = InitialState
        /\ camera = <<WALL_SIZE, WALL_SIZE>> /\ yaw = NoTurn
        /\ controlsIsLocked = FALSE
        /\ mazeRef = scene.seed
        /\ exitPositionRef = findExit(maze, <<0, 0>>)
        /\ enemiesRef = <<>> /\ checkpointsRef = <<>>
        /\ playerPositionRef = <<1, 1>> /\ moveStateRef = NoKeys
        /\ respawnTimerRef = 0 /\ timers = {} /\ nextTimer = 1
        /\ now = StartTime /\ originalPosition = <<>> /\ frames = 0 /\ inits = 0
        /\ loops = 0 /\ drawn = NoDraws

\* n draws of a wall cell, then the draws of cells
Padded(n, cells) == [i \in 1..n |-> <<10, 10>>] \o cells

\* the cells the attempts of createEnemies draw: PlaceDraws cells of
\* PlaceCells, or five cells far enough from (1,1) and from each other, or
\* a valid cell at the last attempt or after it
EnemyCellDraws ==
  [1..PlaceDraws -> PlaceCells]
    \cup { << <<11, 11>>, <<15, 11>>, <<19, 19>>, <<9, 1>>, <<19, 11>> >>,
           Padded(maxAttempts - 1, << <<11, 11>> >>),
           Padded(maxAttempts, << <<11, 11>> >>) }

\* the cells the do-whiles of the three checkpoints draw: for each, one cell
\* of PlaceCells first or no valid cell; or for the first a valid cell at
\* the last attempt but one, at the last, or after it
CheckpointCellDraws ==
  [1..3 -> {<<>>} \cup {<<cell>> : cell \in PlaceCells}]
    \cup { << Padded(n, << <<11, 11>> >>), << <<19, 19>> >>, <<>> >> :
             n \in {100 - 2, 100 - 1, 100} }

\* createEnemies(scene, maze, settings): its attempts draw the cells of a
\* sequence of EnemyCellDraws, the later ones no valid cell
CreateEnemies ==
  /\ drawn = NoDraws
  /\ \E cells \in EnemyCellDraws :
       LET draws == [i \in 1..Len(cells) |->
                       EnemyDraw(cells[i][1], cells[i][2],
                                 << <<1, 3>>, <<2, 3>>, <<3, 3>> >>)]
       IN  /\ enemiesRef' = createEnemies(Grid(mazeRef), draws)
           /\ drawn' = [drawn EXCEPT !.enemies = draws]
  /\ UNCHANGED <<gen, state, closure, camera, yaw, controlsIsLocked, mazeRef,
                 exitPositionRef, checkpointsRef, playerPositionRef,
                 moveStateRef, respawnTimerRef, timers, nextTimer, now,
                 originalPosition, frames, inits, loops>>

\* createCheckpoints(scene, maze, settings), the call after createEnemies:
\* the do-whiles draw the cells of an element of CheckpointCellDraws
CreateCheckpoints ==
  /\ drawn.enemies # <<>> /\ drawn.checkpoints = <<>>
  /\ \E draws \in CheckpointCellDraws :
       /\ checkpointsRef' = createCheckpoints(Grid(mazeRef), draws)
       /\ drawn' = [drawn EXCEPT !.checkpoints = draws]
  /\ UNCHANGED <<gen, state, closure, camera, yaw, controlsIsLocked, mazeRef,
                 exitPositionRef, enemiesRef, playerPositionRef,
                 moveStateRef, respawnTimerRef, timers, nextTimer, now,
                 originalPosition, frames, inits, loops>>

PlaceSpec == PlaceInit /\ [][CreateEnemies \/ CreateCheckpoints]_vars

(***************************************************************************)
(* PatrolSpec: the patrol step of updateEnemies, frame after frame, on one *)
(* enemy placed on a cell of PatrolCells of the grid of a scene, with      *)
(* every patrol path of PatrolPicks and every speed of PatrolSpeeds.       *)
(***************************************************************************)
\* open cells far enough from (1,1): in the middle, and in the corner where
\* the waypoints are clamped
PatrolCells == { <<11, 11>>, <<15, 11>>, <<19, 19>> }

\* the three <<direction index, distance>> draws of the patrol loop
PatrolPicks ==
  { << <<1, 3>>, <<2, 4>>, <<4, 6>> >>,
    << <<4, 3>>, <<4, 4>>, <<2, 3>> >>,
    << <<3, 4>>, <<1, 5>>, <<3, 6>> >> }

\* ENEMY_SPEED * (0.8 + Math.random() * 0.4): from 0.016 up to 0.024
PatrolSpeeds == { 16, 20, 23 }

\* the component is mounted, createEnemies has placed one enemy
PatrolInit ==
  \E scene \in Scenes, cell \in PatrolCells, picks \in PatrolPicks,
     speed \in PatrolSpeeds :
    LET maze == Mazes[scene.seed]
    IN  /\ gen = IdleGenerator
        /\ state = InitialState /\ closure = InitialState
        /\ camera = <<WALL_SIZE, WALL_SIZE>> /\ yaw = NoTurn
        /\ controlsIsLocked = FALSE
        /\ mazeRef = scene.seed
        /\ exitPositionRef = findExit(maze, <<0, 0>>)
        /\ drawn =
             [enemies |->
                << [EnemyDraw(cell[1], cell[2], picks) EXCEPT !.speed = speed] >>,
              checkpoints |-> <<>>]
        /\ enemiesRef = createEnemies(maze, drawn.enemies)
        /\ checkpointsRef = <<>>
        /\ playerPositionRef = <<1, 1>> /\ moveStateRef = NoKeys
        /\ respawnTimerRef = 0 /\ timers = {} /\ nextTimer = 1
        /\ now = StartTime /\ originalPosition = <<>> /\ frames = 0 /\ inits = 0
        /\ loops = 1

\* the patrol step of one frame, on every enemy
PatrolFrame ==
  /\ enemiesRef' = [i \in 1..Len(enemiesRef) |-> patrol(enemiesRef[i])]
  /\ UNCHANGED <<gen, state, closure, camera, yaw, controlsIsLocked, mazeRef,
                 exitPositionRef, checkpointsRef, playerPositionRef,
                 moveStateRef, respawnTimerRef, timers, nextTimer, now,
                 originalPosition, frames, inits, loops, drawn>>

PatrolSpec == PatrolInit /\ [][PatrolFrame]_vars

(***************************************************************************)
(* Spec: the mounted component.                                            *)
(***************************************************************************)
\* what the body of the effect assigns: a new camera at (WALL_SIZE, WALL_SIZE),
\* new controls, a new grid, the exit, the enemies, the checkpoints; the
\* closures it creates capture the useState values of this render; its call
\* animate() starts a frame loop, and the cleanup cancels none
RunEffect(scene, rendered) ==
  LET maze == Mazes[scene.seed]
  IN  /\ closure' = rendered
      /\ camera' = <<WALL_SIZE, WALL_SIZE>>
      /\ yaw' = NoTurn
      /\ controlsIsLocked' = FALSE
      /\ mazeRef' = scene.seed
      /\ exitPositionRef' = findExit(maze, exitPositionRef)
      /\ enemiesRef' = createEnemies(maze, scene.enemies)
      /\ checkpointsRef' = createCheckpoints(maze, scene.checkpoints)
      /\ loops' = loops + 1
      /\ drawn' = SceneDraws(scene)

\* the state after the first render and the first run of the effect
Mounted(scene) ==
  LET maze == Mazes[scene.seed]
  IN  /\ gen = IdleGenerator
      /\ state = InitialState /\ closure = InitialState
      /\ camera = <<WALL_SIZE, WALL_SIZE>> /\ yaw = NoTurn
      /\ controlsIsLocked = FALSE
      /\ mazeRef = scene.seed
      /\ exitPositionRef = findExit(maze, <<0, 0>>)
      /\ enemiesRef = createEnemies(maze, scene.enemies)
      /\ checkpointsRef = createCheckpoints(maze, scene.checkpoints)
      /\ playerPositionRef = <<1, 1>> /\ moveStateRef = NoKeys
      /\ respawnTimerRef = 0 /\ timers = {} /\ nextTimer = 1
      /\ now = StartTime /\ originalPosition = <<>> /\ frames = 0 /\ inits = 0
      /\ loops = 1 /\ drawn = SceneDraws(scene)

MountInit == \E scene \in Scenes : Mounted(scene)

\* the scenes with no enemy and no checkpoint within reach of the cells
\* around the start
QuietStart(scene) ==
  LET maze == Mazes[scene.seed]
      enemies == createEnemies(maze, scene.enemies)
      checkpoints == createCheckpoints(maze, scene.checkpoints)
  IN  /\ \A i \in 1..Len(enemies) :
           DistSq(enemies[i].position, <<11, 11>>) > 4 * 4
      /\ \A i \in 1..Len(checkpoints) :
           DistSq(checkpoints[i].position, <<11, 11>>) > 4 * 4

\* where a walk to the exit has taken the player: in the cell west of the
\* cell next to the exit, 0.04 cells from its east edge
NearExitPosition ==
  <<mazeToWorld(MAZE_SIZE - 4) + 920, mazeToWorld(MAZE_SIZE - 2) + 800>>

\* a later state of a mounted component of a quiet scene: the pointer is
\* locked and the player has walked, unharmed, to the cell two west of the
\* exit and faces it
WalkedInit ==
  \E scene \in {sc \in Scenes : QuietStart(sc)} :
    LET maze == Mazes[scene.seed]
    IN  /\ gen = IdleGenerator
        /\ state = [InitialState EXCEPT !.isLocked = TRUE]
        /\ closure = InitialState
        /\ camera = NearExitPosition /\ yaw = FacingEast
        /\ controlsIsLocked = TRUE
        /\ mazeRef = scene.seed
        /\ exitPositionRef = findExit(maze, <<0, 0>>)
        /\ enemiesRef = createEnemies(maze, scene.enemies)
        /\ checkpointsRef = createCheckpoints(maze, scene.checkpoints)
        /\ playerPositionRef = GridPosition(NearExitPosition)
        /\ moveStateRef = NoKeys
        /\ respawnTimerRef = 0 /\ timers = {} /\ nextTimer = 1
        /\ now = StartTime /\ originalPosition = <<>> /\ frames = 0 /\ inits = 0
        /\ loops = 1 /\ drawn = SceneDraws(scene)

\* frames that have run when StoodInit is taken
StoodFrames == 149

\* an enemy after n more frames in which the player stands at playerPos, or
\* fewer when the enemy starts an attack
RECURSIVE idleFrames(_, _, _, _)
idleFrames(enemy, playerPos, currentTime, n) ==
  IF n = 0 THEN enemy
  ELSE IF n = 1 THEN attack(patrol(enemy), playerPos, currentTime).enemy
  ELSE LET half == idleFrames(enemy, playerPos, currentTime, n \div 2)
       IN  IF half.isAttacking THEN half
           ELSE idleFrames(half, playerPos, currentTime, n - n \div 2)

\* a later state of a mounted component: the pointer is locked and the player
\* has not moved yet, StoodFrames frames have run and no enemy has come
\* within range of playerPositionRef, which is still (1,1)
StoodInit ==
  \E scene \in Scenes :
    LET maze == Mazes[scene.seed]
        created == createEnemies(maze, scene.enemies)
        enemies == [i \in 1..Len(created) |->
                      idleFrames(created[i], <<1, 1>>, StartTime, StoodFrames)]
    IN  /\ Len(enemies) > 1
        /\ \A i \in 1..Len(enemies) :
             ~enemies[i].isAttacking /\ enemies[i].lastAttack = 0
        /\ gen = IdleGenerator
        /\ state = [InitialState EXCEPT !.isLocked = TRUE]
        /\ closure = InitialState
        /\ camera = <<WALL_SIZE, WALL_SIZE>> /\ yaw = NoTurn
        /\ controlsIsLocked = TRUE
        /\ mazeRef = scene.seed
        /\ exitPositionRef = findExit(maze, <<0, 0>>)
        /\ enemiesRef = enemies
        /\ checkpointsRef = createCheckpoints(maze, scene.checkpoints)
        /\ playerPositionRef = <<1, 1>> /\ moveStateRef = NoKeys
        /\ respawnTimerRef = 0 /\ timers = {} /\ nextTimer = 1
        /\ now = StartTime /\ originalPosition = <<>> /\ frames = 0 /\ inits = 0
        /\ loops = 1 /\ drawn = SceneDraws(scene)

\* a later state of a mounted component, in the third run of its effect: in
\* each of the two runs before, the player lost a life and changed a setting
\* of the start overlay after the respawn, so the closures of this run have
\* captured lives = 1; in this run, of a quiet scene, the pointer is locked
\* and the player has walked, unharmed, to the cell two west of the exit
WornInit ==
  \E scene \in {sc \in Scenes : QuietStart(sc)} :
    LET maze == Mazes[scene.seed]
        rendered == [InitialState EXCEPT !.lives = 1,
                                         !.graphicsQuality = "high",
                                         !.timeOfDay = "night"]
    IN  /\ gen = IdleGenerator
        /\ state = [rendered EXCEPT !.isLocked = TRUE]
        /\ closure = rendered
        /\ camera = NearExitPosition /\ yaw = FacingEast
        /\ controlsIsLocked = TRUE
        /\ mazeRef = scene.seed
        /\ exitPositionRef = findExit(maze, <<0, 0>>)
        /\ enemiesRef = createEnemies(maze, scene.enemies)
        /\ checkpointsRef = createCheckpoints(maze, scene.checkpoints)
        /\ playerPositionRef = GridPosition(NearExitPosition)
        /\ moveStateRef = NoKeys
        /\ respawnTimerRef = 0 /\ timers = {} /\ nextTimer = 3
        /\ now = StartTime /\ originalPosition = <<>> /\ frames = 0 /\ inits = 2
        /\ loops = 3 /\ drawn = SceneDraws(scene)

Init == MountInit \/ WalkedInit \/ StoodInit \/ WornInit

\* the Start button of the overlay: startGame(), the browser grants the
\* pointer lock, onPointerlockChange dispatches 'lock'
StartGame ==
  /\ mazeRef # 0
  /\ ~state.isLocked /\ ~state.gameWon /\ ~state.gameOver
  /\ controlsIsLocked' = TRUE
  /\ state' = [state EXCEPT !.isLocked = TRUE]
  /\ UNCHANGED <<gen, closure, camera, yaw, mazeRef, exitPositionRef,
                 enemiesRef, checkpointsRef, playerPositionRef, moveStateRef,
                 respawnTimerRef, timers, nextTimer, now, frames, inits, loops, drawn,
                 originalPosition>>

\* onKeyDown with a movement key
KeyDownUnguarded ==
  /\ mazeRef # 0
  /\ \E code \in KeyCodes :
       moveStateRef' = [moveStateRef EXCEPT ![KeyIntent(code)] = TRUE]
  /\ UNCHANGED <<gen, state, closure, camera, yaw, controlsIsLocked, mazeRef,
                 exitPositionRef, enemiesRef, checkpointsRef,
                 playerPositionRef, respawnTimerRef, timers, nextTimer, now,
                 frames, inits, loops, drawn, originalPosition>>

KeyDown ==
  /\ controlsIsLocked
  /\ \E code \in KeyCodes :
       moveStateRef' = [moveStateRef EXCEPT ![KeyIntent(code)] = TRUE]
  /\ UNCHANGED <<gen, state, closure, camera, yaw, controlsIsLocked, mazeRef,
                 exitPositionRef, enemiesRef, checkpointsRef,
                 playerPositionRef, respawnTimerRef, timers, nextTimer, now,
                 frames, inits, loops, drawn,
                 originalPosition>>

\* onKeyUp
KeyUp ==
  /\ mazeRef # 0
  /\ \E code \in KeyCodes :
       moveStateRef' = [moveStateRef EXCEPT ![KeyIntent(code)] = FALSE]
  /\ UNCHANGED <<gen, state, closure, camera, yaw, controlsIsLocked, mazeRef,
                 exitPositionRef, enemiesRef, checkpointsRef,
                 playerPositionRef, respawnTimerRef, timers, nextTimer, now,
                 frames, inits, loops, drawn,
                 originalPosition>>

\* onKeyDown with Escape: controls.unlock(), onPointerlockChange dispatches
\* 'unlock', onUnlock clears the key intents
Unlock ==
  /\ controlsIsLocked
  /\ controlsIsLocked' = FALSE
  /\ state' = [state EXCEPT !.isLocked = FALSE]
  /\ moveStateRef' = NoKeys
  /\ UNCHANGED <<gen, closure, camera, yaw, mazeRef, exitPositionRef,
                 enemiesRef, checkpointsRef, playerPositionRef,
                 respawnTimerRef, timers, nextTimer, now, frames, inits, loops, drawn,
                 originalPosition>>

\* something reads the clock: a timeout is pending, an enemy is winding up an
\* attack or is within its cooldown
ClockRead ==
  \/ timers # {}
  \/ \E i \in 1..Len(enemiesRef) :
       \/ enemiesRef[i].isAttacking
       \/ ~(now - enemiesRef[i].lastAttack > ENEMY_ATTACK_COOLDOWN)

\* the clock advances, while something reads it; a timeout that is due runs
\* before it advances again
Tick ==
  /\ mazeRef # 0
  /\ ClockRead
  /\ now < StartTime + MaxTicks * TickMs
  /\ \A t \in timers : t.due > now
  /\ now' = now + TickMs
  /\ UNCHANGED <<gen, state, closure, camera, yaw, controlsIsLocked, mazeRef,
                 exitPositionRef, enemiesRef, checkpointsRef,
                 playerPositionRef, moveStateRef, respawnTimerRef, timers,
                 nextTimer, frames, inits, loops, drawn,
                 originalPosition>>

\* one call of animate by requestAnimationFrame.  Its condition reads the
\* controls and the captured gameWon, gameOver and isRespawning.
Frame ==
  IF controlsIsLocked /\ ~closure.gameWon /\ ~closure.gameOver
     /\ ~closure.isRespawning
  THEN /\ frames < MaxFrames
       /\ LET mv == updateMovement(camera, yaw, moveStateRef, Grid(mazeRef),
                                   playerPositionRef, closure.isRespawning,
                                   originalPosition)
              s0 == [state |-> state, closure |-> closure,
                     enemies |-> enemiesRef, checkpoints |-> checkpointsRef,
                     timers |-> timers, respawnTimerRef |-> respawnTimerRef,
                     nextTimer |-> nextTimer, now |-> now]
              s1 == updateEnemies(s0, mv.playerPosition)
              s2 == checkCheckpoints(s1, mv.playerPosition)
              s3 == checkWinCondition(s2, mv.playerPosition, exitPositionRef)
          IN  /\ camera' = mv.camera
              /\ playerPositionRef' = mv.playerPosition
              /\ state' = s3.state
              /\ enemiesRef' = s3.enemies
              /\ checkpointsRef' = s3.checkpoints
              /\ timers' = s3.timers
              /\ respawnTimerRef' = s3.respawnTimerRef
              /\ nextTimer' = s3.nextTimer
       /\ frames' = frames + 1
       /\ UNCHANGED <<gen, closure, yaw, controlsIsLocked, mazeRef,
                      exitPositionRef, moveStateRef, now, originalPosition,
                      inits, loops, drawn>>
  ELSE mazeRef # 0 /\ UNCHANGED vars

\* one call of animate of an effect whose cleanup has run: it requests the
\* next frame; its controls are never locked again, since pointerLockElement
\* is never the canvas the cleanup removed, so it skips the simulation
StaleFrame ==
  /\ loops > 1
  /\ UNCHANGED vars

\* the callback of the respawn timeout
RespawnTimeout ==
  \E t \in timers, offset \in RespawnOffsets :
    /\ t.due <= now
    /\ camera' = <<mazeToWorld(t.checkpoint[1]) + offset[1],
                   mazeToWorld(t.checkpoint[2]) + offset[2]>>
    /\ playerPositionRef' = t.checkpoint
    /\ state' = [state EXCEPT !.isRespawning = FALSE]
    /\ respawnTimerRef' = 0
    /\ timers' = timers \ {t}
    /\ UNCHANGED <<gen, closure, yaw, controlsIsLocked, mazeRef,
                   exitPositionRef, enemiesRef, checkpointsRef, moveStateRef,
                   nextTimer, now, frames, inits, loops, drawn,
                 originalPosition>>

\* resetGame(), from the button of the victory or the game-over overlay; the
\* button is clicked with the pointer released
ResetGameKeepingScore ==
  /\ state.gameWon \/ state.gameOver
  /\ ~controlsIsLocked
  /\ state' = [state EXCEPT !.gameWon = FALSE, !.gameOver = FALSE,
                            !.lives = 3,
                            !.currentCheckpoint = <<1, 1>>,
                            !.isRespawning = FALSE]
  /\ camera' = <<WALL_SIZE, WALL_SIZE>>
  /\ playerPositionRef' = <<1, 1>>
  /\ checkpointsRef' = [i \in 1..Len(checkpointsRef) |->
                          [checkpointsRef[i] EXCEPT !.activated = FALSE]]
  /\ UNCHANGED <<gen, closure, yaw, controlsIsLocked, mazeRef,
                 exitPositionRef, enemiesRef, moveStateRef, respawnTimerRef,
                 timers, nextTimer, now, frames, inits, loops, drawn,
                 originalPosition>>

ResetGame ==
  /\ state.gameWon \/ state.gameOver
  /\ ~controlsIsLocked
  /\ state' = [state EXCEPT !.gameWon = FALSE, !.gameOver = FALSE,
                            !.lives = 3, !.score = 0,
                            !.currentCheckpoint = <<1, 1>>,
                            !.isRespawning = FALSE]
  /\ camera' = <<WALL_SIZE, WALL_SIZE>>
  /\ playerPositionRef' = <<1, 1>>
  /\ checkpointsRef' = [i \in 1..Len(checkpointsRef) |->
                          [checkpointsRef[i] EXCEPT !.activated = FALSE]]
  /\ UNCHANGED <<gen, closure, yaw, controlsIsLocked, mazeRef,
                 exitPositionRef, enemiesRef, moveStateRef, respawnTimerRef,
                 timers, nextTimer, now, frames, inits, loops, drawn,
                 originalPosition>>

\* a settings select of the start overlay changes one of the dependencies
\* of the effect: the cleanup runs, then the effect again
ChangeSetting(rendered) ==
  /\ mazeRef # 0
  /\ ~state.isLocked /\ ~state.gameWon /\ ~state.gameOver
  /\ inits < MaxInits
  /\ rendered # state
  /\ state' = rendered
  /\ \E scene \in Scenes : RunEffect(scene, rendered)
  /\ inits' = inits + 1
  /\ UNCHANGED <<gen, playerPositionRef, moveStateRef, respawnTimerRef,
                 timers, nextTimer, now, frames,
                 originalPosition>>

HandleGraphicsChange ==
  \E quality \in GraphicsQualities :
    ChangeSetting([state EXCEPT !.graphicsQuality = quality])

HandleTimeChange ==
  \E time \in TimesOfDay : ChangeSetting([state EXCEPT !.timeOfDay = time])

HandleWeatherChange ==
  \E weatherType \in WeatherTypes :
    ChangeSetting([state EXCEPT !.weather = weatherType])

Next ==
  \/ StartGame \/ KeyDown \/ KeyUp \/ Unlock \/ Tick \/ Frame \/ StaleFrame
  \/ RespawnTimeout \/ ResetGame
  \/ HandleGraphicsChange \/ HandleTimeChange \/ HandleWeatherChange

Spec == Init /\ [][Next]_vars

(***************************************************************************)
(* Properties of the generated grid.                                       *)
(***************************************************************************)
\* the contract's dimensions: both odd, at least 5
OddDims(g) == g.width % 2 = 1 /\ g.height % 2 = 1 /\ g.width >= 5 /\ g.height >= 5

OpenCells(g) == {c \in DOMAIN g.maze : g.maze[c] = 0}

Adjacent(c, d) ==
  \/ (c[1] = d[1] /\ (c[2] = d[2] + 1 \/ c[2] = d[2] - 1))
  \/ (c[2] = d[2] /\ (c[1] = d[1] + 1 \/ c[1] = d[1] - 1))

\* the open cells a flood fill from the cells of seen reaches
RECURSIVE FloodFill(_, _)
FloodFill(seen, open) ==
  LET more == {c \in open \ seen : \E d \in seen : Adjacent(c, d)}
  IN  IF more = {} THEN seen ELSE FloodFill(seen \cup more, open)

\* C1: every grid generate() returns for odd width and height >= 5 has (1,1)
\* open, the exit cell (W-2, H-2) open, and every open cell reachable from
\* (1,1) over 4-adjacent open cells, whatever the random choices were.
GenConnected ==
  (gen.pc = "done" /\ OddDims(gen)) =>
     /\ gen.maze[<<1, 1>>] = 0
     /\ gen.maze[<<gen.width - 2, gen.height - 2>>] = 0
     /\ OpenCells(gen) = FloodFill({<<1, 1>>}, OpenCells(gen))

\* a returned 5x5 grid in which the exit-path pass opened (2,2), a cell the
\* recursive carve never opens
GenConnectedWitness ==
  /\ gen.pc = "done" /\ gen.width = 5 /\ gen.height = 5
  /\ gen.maze[<<2, 2>>] = 0
  /\ Cardinality(OpenCells(gen)) >= 9

BorderCells(g) ==
  {c \in GridCells(g.width, g.height) :
     c[1] = 0 \/ c[2] = 0 \/ c[1] = g.width - 1 \/ c[2] = g.height - 1}

\* C2: for odd width and height >= 5, every cell of row 0, row H-1, column 0
\* and column W-1 is a wall in every state of generate() after the grid is
\* filled, so in particular in the grid it returns: no write of carvePath
\* or ensureExitPath opens a border cell.
GenBorderWalls ==
  (gen.pc # "start" /\ OddDims(gen)) =>
     \A c \in BorderCells(gen) : gen.maze[c] = 1

\* a returned 5x5 grid whose cells next to the border corner are open
GenBorderWitness ==
  /\ gen.pc = "done" /\ gen.width = 5 /\ gen.height = 5
  /\ gen.maze[<<3, 3>>] = 0 /\ gen.maze[<<3, 1>>] = 0 /\ gen.maze[<<1, 3>>] = 0

\* C3: generate() has no failure path, for every width and height: it never
\* throws, never writes a cell outside the height-by-width grid, and what it
\* returns is a height-by-width grid.
GenNoFailure ==
  /\ gen.pc # "threw"
  /\ ~gen.oob
  /\ gen.pc = "done" => DOMAIN gen.maze = GridCells(gen.width, gen.height)

(***************************************************************************)
(* Properties of collision and movement (MoveSpec).                        *)
(***************************************************************************)
Abs(n) == IF n < 0 THEN -n ELSE n

\* the box createMaze draws for a wall cell is WALL_SIZE wide and deep and
\* centred at mazeToWorld of the cell: position is strictly inside the
\* square of the cell
insideCell(position, cell) ==
  /\ 2 * Abs(position[1] - mazeToWorld(cell[1])) < WALL_SIZE
  /\ 2 * Abs(position[2] - mazeToWorld(cell[2])) < WALL_SIZE

\* position lies in a cell of the grid that holds mark
liesInCell(maze, position, mark) ==
  LET cell == GridPosition(position)
  IN  cell \in DOMAIN maze /\ insideCell(position, cell) /\ maze[cell] = mark

\* the centre and the four points COLLISION_RADIUS cells from it, in world
\* coordinates
samplePoints(position) ==
  LET radius == (COLLISION_RADIUS * WALL_SIZE) \div 1000
  IN  { position,
        <<position[1] + radius, position[2]>>,
        <<position[1] - radius, position[2]>>,
        <<position[1], position[2] + radius>>,
        <<position[1], position[2] - radius>> }

\* the displacement, the two candidates and the two collision tests of the
\* updateMovement call that has returned
lastMove == applyEuler(moveVector(moveStateRef), yaw)

lastTestX == <<originalPosition[1] + lastMove[1], originalPosition[2]>>

lastTestZ == <<originalPosition[1], originalPosition[2] + lastMove[2]>>

lastHitX == checkCollision(Grid(mazeRef), lastTestX)

lastHitZ == checkCollision(Grid(mazeRef), lastTestZ)

\* C4: checkCollision rejects every candidate position that lies in a cell
\* marked wall, and accepts every candidate that lies in an open cell and whose
\* centre and four COLLISION_RADIUS-offset sample points all lie in open
\* cells; a position lies in the cell whose square, as createMaze draws it,
\* contains it.  Stated of both candidates of every updateMovement call.
CollisionSymmetry ==
  originalPosition # <<>> =>
    \A candidate \in {lastTestX, lastTestZ} :
      /\ liesInCell(Grid(mazeRef), candidate, 1)
           => checkCollision(Grid(mazeRef), candidate)
      /\ (\A q \in samplePoints(candidate) : liesInCell(Grid(mazeRef), q, 0))
           => ~checkCollision(Grid(mazeRef), candidate)

\* C5: when the displacement of an updateMovement call has non-zero X and Z
\* components and the X-only candidate collides but the Z-only candidate does
\* not, the call leaves X unchanged and commits Z to the displaced value; and
\* symmetrically, X is committed and Z unchanged, when only the Z candidate
\* collides.
AxisSlide ==
  (originalPosition # <<>> /\ lastMove[1] # 0 /\ lastMove[2] # 0) =>
    /\ (lastHitX /\ ~lastHitZ) =>
         camera = <<originalPosition[1], originalPosition[2] + lastMove[2]>>
    /\ (lastHitZ /\ ~lastHitX) =>
         camera = <<originalPosition[1] + lastMove[1], originalPosition[2]>>

\* a diagonal move whose X candidate collided and whose Z candidate did not,
\* after which the player has moved along Z only
AxisSlideWitness ==
  /\ originalPosition # <<>>
  /\ lastMove[1] # 0 /\ lastMove[2] # 0
  /\ lastHitX /\ ~lastHitZ
  /\ camera[1] = originalPosition[1]
  /\ camera[2] # originalPosition[2]


(***************************************************************************)
(* Properties of the session (Spec).                                       *)
(***************************************************************************)
\* |dx| <= 1 and |dz| <= 1: the integer grid positions at Euclidean distance
\* below 1.5
withinThreshold(playerPos, exitPos) ==
  Abs(playerPos[1] - exitPos[1]) <= 1 /\ Abs(playerPos[2] - exitPos[2]) <= 1

\* C6: in every frame in which the pointer is not locked, or the game is won,
\* or the game is over, or a respawn lockout is active, the frame commits no
\* movement: the world position and the grid position of the player are
\* unchanged by it, whatever keys are held.
MovementGated ==
  [][(Frame /\ (~controlsIsLocked \/ state.gameWon \/ state.gameOver
                \/ state.isRespawning))
       => (camera' = camera /\ playerPositionRef' = playerPositionRef)]_vars

\* C7: the win check of a frame sets the game to won if and only if the
\* player's grid position is within |dx| <= 1 and |dz| <= 1 of the exit
\* (Euclidean distance below 1.5): within it the game is won after the frame,
\* outside it the frame leaves gameWon as it was.
WinThreshold ==
  [][(Frame /\ frames' # frames)
       => /\ withinThreshold(playerPositionRef', exitPositionRef)
               => state'.gameWon
          /\ ~withinThreshold(playerPositionRef', exitPositionRef)
               => state'.gameWon = state.gameWon]_vars

\* the game has been won from the cell next to the exit, with the bonus of
\* three lives
WinThresholdWitness ==
  /\ state.gameWon /\ state.score = 150
  /\ DistSq(playerPositionRef, exitPositionRef) = 1
  /\ frames > 0

\* C8: once the game is won, a later frame in which the exit is still within
\* the threshold is a no-op: it changes neither gameWon nor score nor lives.
WinIdempotent ==
  [][(Frame /\ state.gameWon
      /\ withinThreshold(playerPositionRef, exitPositionRef)
      /\ withinThreshold(playerPositionRef', exitPositionRef))
       => /\ state'.gameWon = state.gameWon
          /\ state'.score = state.score
          /\ state'.lives = state.lives]_vars

\* an enemy's attack resolves in this step: attackPlayer() is called
Damaged ==
  /\ Len(enemiesRef') = Len(enemiesRef)
  /\ \E i \in 1..Len(enemiesRef) :
       enemiesRef'[i].lastAttack # enemiesRef[i].lastAttack

\* C9: whenever damage is applied while the player has exactly 1 life left,
\* the session goes to game-over and does not enter the respawn lockout: no
\* respawn timer is armed.
LastLifeIsFatal ==
  [][(Frame /\ Damaged /\ state.lives = 1)
       => (state'.gameOver /\ nextTimer' = nextTimer /\ timers' = timers)]_vars

\* a checkpoint the frame finds not yet activated and within its trigger radius
FreshTrigger ==
  \E i \in 1..Len(checkpointsRef) :
    /\ ~checkpointsRef[i].activated
    /\ DistSq(playerPositionRef', checkpointsRef[i].position) < 2 * 2

\* C10: a checkpoint that is activated stays activated until resetGame (or
\* until the effect builds new checkpoints), so it is activated at most once
\* between two resets; and a frame in which no checkpoint is newly within
\* the trigger radius, the activated ones being within it or not, awards no
\* points and leaves the respawn anchor unchanged (the frame's win check
\* aside, which sets the score).
CheckpointIdempotence ==
  [][/\ (inits' = inits /\ ~ResetGame) =>
          \A i \in 1..Len(checkpointsRef) :
            checkpointsRef[i].activated => checkpointsRef'[i].activated
     /\ (Frame /\ ~FreshTrigger
         /\ ~withinThreshold(playerPositionRef', exitPositionRef)) =>
          /\ state'.score = state.score
          /\ state'.currentCheckpoint = state.currentCheckpoint
          /\ checkpointsRef' = checkpointsRef]_vars

\* the player has stayed within the trigger radius of an activated checkpoint
\* for two more frames, and holds the 100 points of its one activation
CheckpointIdempotenceWitness ==
  /\ frames >= 3
  /\ state.score = 100
  /\ \E i \in 1..Len(checkpointsRef) :
       /\ checkpointsRef[i].activated
       /\ state.currentCheckpoint = checkpointsRef[i].position
       /\ DistSq(playerPositionRef, checkpointsRef[i].position) < 2 * 2

(***************************************************************************)
(* Properties of the respawn timer, the frame loop and the effect.         *)
(***************************************************************************)
\* C11: when a respawn lockout expires, the timeout callback sets the
\* player's grid position to the checkpoint most recently activated since
\* the last reset, which is the current value of currentCheckpoint, (1,1)
\* when none has been activated since.
RespawnAnchor ==
  [][RespawnTimeout => playerPositionRef' = state.currentCheckpoint]_vars

\* C12: in every reachable state at most one respawn timeout is pending, and
\* it is the one respawnTimerRef holds: respawnPlayer clears the pending one
\* before it arms another.
OneRespawnTimer ==
  /\ Cardinality(timers) <= 1
  /\ \A t \in timers : t.id = respawnTimerRef

\* a second respawn timeout is pending and no relocation has happened: it
\* was armed while the first was pending, and replaced it
OneRespawnTimerWitness ==
  /\ nextTimer = 3 /\ respawnTimerRef = 2
  /\ \E t \in timers : t.id = 2
  /\ inits = 0 /\ ~state.gameWon
  /\ camera[1] = WALL_SIZE

\* C13: resetGame leaves no respawn timeout pending, so no callback armed
\* before the reset relocates the player or changes isRespawning after it.
ResetCancelsTimer ==
  [][ResetGame => timers' = {}]_vars

\* C14: at most one frame loop is live in every reachable state: the loop of
\* an effect stops when the cleanup of the effect runs.
OneFrameLoop ==
  loops <= 1

\* C15: a change of graphics quality, time of day or weather leaves the
\* grid, the exit, the enemies, the checkpoints and the player's world
\* position unchanged.
CosmeticOnly ==
  [][(HandleGraphicsChange \/ HandleTimeChange \/ HandleWeatherChange) =>
       UNCHANGED <<mazeRef, exitPositionRef, enemiesRef, checkpointsRef,
                   camera>>]_vars

\* C17: in a step taken while the respawn lockout lasts, no enemy enters the
\* attacking state and the player's lives are not decremented.
AttackSuspended ==
  [][state.isRespawning =>
       /\ state'.lives >= state.lives
       /\ \A i \in 1..Len(enemiesRef') :
            (i <= Len(enemiesRef) /\ enemiesRef'[i].isAttacking)
              => enemiesRef[i].isAttacking]_vars

\* C18: in every reachable state the player's grid position is, per axis,
\* round(world / WALL_SIZE + MAZE_SIZE / 2) of the camera position.
GridMatchesWorld ==
  playerPositionRef = GridPosition(camera)

(***************************************************************************)
(* Properties of the placement passes.                                     *)
(***************************************************************************)
\* the cells of the entities of one pass, in the order they were placed
enemyCells == [i \in 1..Len(enemiesRef) |-> enemiesRef[i].patrolPath[1]]

checkpointCells == [i \in 1..Len(checkpointsRef) |-> checkpointsRef[i].position]

\* the cells of a pass are open, farther than far2 (squared) from (1,1) or at
\* it when orEqual, and likewise for apart2 from the cells placed before
spawnsValid(cells, far2, apart2, orEqual) ==
  \A i \in 1..Len(cells) :
    /\ Grid(mazeRef)[cells[i]] = 0
    /\ \/ DistSq(cells[i], <<1, 1>>) > far2
       \/ orEqual /\ DistSq(cells[i], <<1, 1>>) = far2
    /\ \A j \in 1..(i - 1) :
         \/ DistSq(cells[i], cells[j]) > apart2
         \/ orEqual /\ DistSq(cells[i], cells[j]) = apart2

\* C16: every enemy and every checkpoint placed lies on an open cell, its
\* distance from the player spawn (1,1) exceeds MIN_SPAWN_DISTANCE, and its
\* distance from every entity placed earlier in the same pass exceeds 4.
SpawnValidStrict ==
  /\ spawnsValid(enemyCells, MIN_SPAWN_DISTANCE * MIN_SPAWN_DISTANCE, 4 * 4,
                 FALSE)
  /\ spawnsValid(checkpointCells, MIN_SPAWN_DISTANCE * MIN_SPAWN_DISTANCE,
                 4 * 4, FALSE)

\* C16, amended: every enemy and every checkpoint placed lies on an open
\* cell, its distance from the player spawn (1,1) is at least
\* MIN_SPAWN_DISTANCE, and its distance from every entity placed earlier in
\* the same pass is at least 4.
SpawnValid ==
  /\ spawnsValid(enemyCells, MIN_SPAWN_DISTANCE * MIN_SPAWN_DISTANCE, 4 * 4,
                 TRUE)
  /\ spawnsValid(checkpointCells, MIN_SPAWN_DISTANCE * MIN_SPAWN_DISTANCE,
                 4 * 4, TRUE)

\* both passes have placed entities, (13,11) was drawn after (11,11) and
\* rejected, and entities stand at the threshold distances exactly
SpawnValidWitness ==
  /\ enemyCells = << <<11, 11>>, <<15, 11>> >>
  /\ checkpointCells = << <<9, 1>>, <<19, 19>> >>

\* the first n elements of a sequence, all of them when it is shorter
First(seq, n) == SubSeq(seq, 1, Min(Len(seq), n))

\* taken, extended by the cells of a sequence of draws that are valid
\* against the cells taken before them, until count cells are taken
RECURSIVE takeValid(_, _, _)
takeValid(cells, taken, count) ==
  IF cells = <<>> \/ Len(taken) >= count THEN taken
  ELSE IF Len(cells) = 1
  THEN IF isValidSpawnLocation(cells[1][1], cells[1][2], Grid(mazeRef), taken)
       THEN Append(taken, cells[1])
       ELSE taken
  ELSE LET n    == Len(cells)
           half == takeValid(SubSeq(cells, 1, n \div 2), taken, count)
       IN  IF Len(half) >= count THEN half
           ELSE takeValid(SubSeq(cells, n \div 2 + 1, n), half, count)

\* the cells of the checkpoints when each of the first k do-whiles uses the
\* first valid cell among its first 100 draws, after (1,1)
RECURSIVE validCheckpoints(_)
validCheckpoints(k) ==
  IF k = 0 THEN << <<1, 1>> >>
  ELSE LET before == validCheckpoints(k - 1)
       IN  takeValid(First(drawn.checkpoints[k], 100), before, Len(before) + 1)

\* C24: createEnemies places at most ENEMY_COUNT enemies and createCheckpoints
\* at most 3 checkpoints; the enemies stand on the cells, among the first
\* maxAttempts draws, that were valid when drawn, the first ENEMY_COUNT of
\* them; and each checkpoint stands on the first valid cell among the first
\* 100 draws of its loop and is omitted only when none of these is valid.
PlacementExhaustive ==
  /\ Len(enemiesRef) <= ENEMY_COUNT
  /\ Len(checkpointsRef) <= 3
  /\ enemyCells =
       takeValid(First([i \in 1..Len(drawn.enemies) |->
                          <<drawn.enemies[i].x, drawn.enemies[i].z>>],
                       maxAttempts),
                 <<>>, ENEMY_COUNT)
  /\ drawn.checkpoints # <<>> =>
       checkpointCells = Tail(validCheckpoints(Len(drawn.checkpoints)))

(***************************************************************************)
(* Properties of the two passes of generate().                             *)
(***************************************************************************)
\* carvePath(1, 1) has returned and ensureExitPath has not written yet
CarveDone(g) == g.pc = "exit" /\ g.currentX = 1 /\ g.currentY = 1

\* the pairs of 4-adjacent cells of a set of cells
Passages(cells) ==
  {e \in {{c, d} : c \in cells, d \in cells} :
     \E c \in e, d \in e : Adjacent(c, d)}

\* C19: when the recursive carve from (1,1) has returned, for odd width and
\* height >= 5 and every outcome of the shuffles, the open cells form a tree:
\* every interior cell with both coordinates odd is open, the open cells are
\* connected, and they have one adjacency less than cells, so that exactly
\* one simple path of open cells joins any two of them.
CarveTree ==
  (CarveDone(gen) /\ OddDims(gen)) =>
     /\ \A c \in GridCells(gen.width, gen.height) :
          (isValidCell(gen, c[1], c[2]) /\ c[1] % 2 = 1 /\ c[2] % 2 = 1)
            => gen.maze[c] = 0
     /\ OpenCells(gen) = FloodFill({<<1, 1>>}, OpenCells(gen))
     /\ Cardinality(Passages(OpenCells(gen))) = Cardinality(OpenCells(gen)) - 1

\* the carve of a 5x5 grid has returned, and (1,1) and (3,1) are joined the
\* long way round, through (1,3) and (3,3)
CarveTreeWitness ==
  /\ CarveDone(gen) /\ gen.width = 5 /\ gen.height = 5
  /\ gen.maze[<<2, 1>>] = 1
  /\ Cardinality(OpenCells(gen)) = 7

\* C20: for width and height >= 3, where (W-3) and (H-3) count steps, every
\* iteration of the loop of ensureExitPath advances exactly one of currentX
\* and currentY by one and decreases neither; the loop ends exactly at
\* (W-2, H-2), so after (W-3)+(H-3) iterations whatever the random outcomes;
\* no write of the pass turns an open cell into a wall; and (W-2, H-2) is
\* open when the pass returns.
ExitPass ==
  [][(ExitStep /\ gen.width >= 3 /\ gen.height >= 3) =>
       /\ \A c \in DOMAIN gen.maze :
            c \in DOMAIN gen'.maze /\ (gen.maze[c] = 0 => gen'.maze[c] = 0)
       /\ gen'.pc \in {"exit", "done"}
       /\ gen'.pc = "exit" =>
            /\ <<gen'.currentX, gen'.currentY>> \in
                 { <<gen.currentX + 1, gen.currentY>>,
                   <<gen.currentX, gen.currentY + 1>> }
            /\ gen'.currentX <= gen.width - 2
            /\ gen'.currentY <= gen.height - 2
       /\ gen'.pc = "done" =>
            /\ gen.currentX = gen.width - 2 /\ gen.currentY = gen.height - 2
            /\ gen'.currentX = gen.currentX /\ gen'.currentY = gen.currentY
            /\ gen'.maze[<<gen.width - 2, gen.height - 2>>] = 0]_vars

\* the pass has returned on a 5x5 grid after a staircase that went down
\* first, through (1,2) and (2,2), cells the carve leaves or may leave closed
ExitPassWitness ==
  /\ gen.pc = "done" /\ gen.width = 5 /\ gen.height = 5
  /\ gen.currentX = 3 /\ gen.currentY = 3
  /\ gen.maze[<<1, 2>>] = 0 /\ gen.maze[<<2, 2>>] = 0 /\ gen.maze[<<2, 1>>] = 1

(***************************************************************************)
(* Properties of the enemies' attacks.                                     *)
(***************************************************************************)
\* a frame that passes the condition of animate and runs the simulation
Simulated == Frame /\ frames' # frames

\* the i-th enemy is, after its patrol step of this frame, within
\* ENEMY_ATTACK_RANGE of the player's grid position of this frame
inRange(i) ==
  DistSq(playerPositionRef', enemiesRef'[i].position)
    < ENEMY_ATTACK_RANGE * ENEMY_ATTACK_RANGE

\* the i-th enemy applies damage in this frame
resolves(i) == enemiesRef'[i].lastAttack # enemiesRef[i].lastAttack

\* the i-th enemy enters the attacking state in this frame
windsUp(i) == enemiesRef'[i].isAttacking /\ ~enemiesRef[i].isAttacking

EscapeCancels ==
  [][Simulated =>
       \A i \in 1..Len(enemiesRef) :
         /\ (enemiesRef[i].isAttacking /\ ~inRange(i)) =>
              /\ ~enemiesRef'[i].isAttacking
              /\ enemiesRef'[i].lastAttack = enemiesRef[i].lastAttack
              /\ (\A j \in 1..Len(enemiesRef) : ~resolves(j))
                   => state'.lives = state.lives
         /\ windsUp(i) => enemiesRef'[i].attackStartTime = now]_vars

\* an enemy started an attack and patrols again without having applied
\* damage: the player got out of its range during the wind-up
EscapeCancelsWitness ==
  \E i \in 1..Len(enemiesRef) :
    /\ ~enemiesRef[i].isAttacking
    /\ enemiesRef[i].attackStartTime > 0
    /\ enemiesRef[i].lastAttack = 0

(***************************************************************************)
(* Properties of the patrol.                                               *)
(***************************************************************************)
\* the square of the world distance of an enemy from its current waypoint
toWaypoint(enemy) ==
  LET targetPos == enemy.patrolPath[enemy.currentPathIndex + 1]
      dx == mazeToWorld(targetPos[1]) - enemy.mesh[1]
      dz == mazeToWorld(targetPos[2]) - enemy.mesh[2]
  IN  dx * dx + dz * dz

\* an enemy is within the arrival threshold of its current waypoint
atWaypoint(enemy) == toWaypoint(enemy) < 200 * 200

\* C23: the patrol path of every enemy is non-empty and its currentPathIndex
\* is within 0..length-1; the patrol step of a frame changes the index only
\* to (index + 1) mod length and only when it finds the enemy within the
\* arrival threshold of its current waypoint, and then it does change it so;
\* when it finds the enemy farther from the waypoint it moves the enemy
\* nearer to the waypoint: so, while frames keep being simulated, the enemy
\* reaches its current waypoint after finitely many frames and goes round
\* its path for ever.
PatrolCyclic ==
  \A i \in 1..Len(enemiesRef) :
    LET enemy == enemiesRef[i]
        after == patrol(enemy)
    IN  /\ Len(enemy.patrolPath) > 0
        /\ enemy.currentPathIndex \in 0..(Len(enemy.patrolPath) - 1)
        /\ IF atWaypoint(enemy)
           THEN /\ after.currentPathIndex =
                     (enemy.currentPathIndex + 1) % Len(enemy.patrolPath)
                /\ after.mesh = enemy.mesh
           ELSE /\ after.currentPathIndex = enemy.currentPathIndex
                /\ toWaypoint(after) < toWaypoint(enemy)

\* an enemy with three waypoints is back at its first after a round
PatrolCyclicWitness ==
  \E i \in 1..Len(enemiesRef) :
    /\ Len(enemiesRef[i].patrolPath) = 3
    /\ enemiesRef[i].currentPathIndex = 0 /\ atWaypoint(enemiesRef[i])
    /\ enemiesRef[i].mesh # <<mazeToWorld(enemiesRef[i].patrolPath[1][1]),
                               mazeToWorld(enemiesRef[i].patrolPath[1][2])>>

(***************************************************************************)
(* Properties of lives, keys, reset and the terminal states.               *)
(***************************************************************************)
\* C25: every damage applied decrements lives by exactly one, also when two
\* enemies resolve in the same frame, so that lives are 3 less the number of
\* damage applications since the last start or reset; lives stay within
\* 0..3; and the game is over exactly when lives are 0.
LivesCount ==
  [][/\ state'.lives \in 0..3
     /\ state'.gameOver <=> state'.lives = 0
     /\ Frame =>
          state'.lives =
            state.lives
              - Cardinality({i \in 1..Len(enemiesRef) : resolves(i)})]_vars

\* C26: in every state where the pointer is not locked all four movement
\* intents are false: a key-down while not locked changes none, and the
\* unlock clears all four.
KeysNeedLock ==
  ~controlsIsLocked => moveStateRef = NoKeys

\* the player has moved with a key down, and the pointer is released again
KeysNeedLockWitness ==
  /\ ~controlsIsLocked /\ moveStateRef = NoKeys
  /\ frames > 0 /\ inits = 0 /\ state.lives = 3 /\ ~state.gameWon
  /\ camera = <<WALL_SIZE, WALL_SIZE - MOVE_SPEED>>

\* C27: after resetGame lives are 3, the score 0, the respawn anchor (1,1),
\* every checkpoint inactive, the player's grid position (1,1), and the game
\* neither won, over nor respawning; the reset leaves the grid, the exit,
\* the enemies and the positions of the checkpoints unchanged; and no frame
\* and no respawn callback changes the grid or the exit.
ResetRestores ==
  [][/\ ResetGame =>
          /\ state'.lives = 3 /\ state'.score = 0
          /\ state'.currentCheckpoint = <<1, 1>>
          /\ \A i \in 1..Len(checkpointsRef') : ~checkpointsRef'[i].activated
          /\ playerPositionRef' = <<1, 1>>
          /\ ~state'.gameWon /\ ~state'.gameOver /\ ~state'.isRespawning
          /\ UNCHANGED <<mazeRef, exitPositionRef, enemiesRef>>
          /\ [i \in 1..Len(checkpointsRef') |-> checkpointsRef'[i].position]
               = [i \in 1..Len(checkpointsRef) |-> checkpointsRef[i].position]
     /\ (Frame \/ StaleFrame \/ RespawnTimeout) =>
          UNCHANGED <<mazeRef, exitPositionRef>>]_vars

\* the game was won with 150 points next to an enemy that had started an
\* attack, and has been reset: the score is 0 again, the player is back at
\* (1,1), the enemy is as it was
ResetRestoresWitness ==
  /\ state.score = 0 /\ state.lives = 3 /\ ~state.gameWon /\ ~state.gameOver
  /\ playerPositionRef = <<1, 1>> /\ camera = <<WALL_SIZE, WALL_SIZE>>
  /\ frames = 1 /\ inits = 0 /\ loops = 1
  /\ \E i \in 1..Len(enemiesRef) :
       enemiesRef[i].isAttacking /\ enemiesRef[i].attackStartTime > 0

\* C28: in every reachable state, checkCollision of the player's world
\* position is false: the player is never inside a wall.
PlayerOutsideWalls ==
  mazeRef # 0 => ~checkCollision(Grid(mazeRef), camera)

\* C29: in no reachable state are gameWon and gameOver both true.
OneTerminalState ==
  ~(state.gameWon /\ state.gameOver)

\* while the respawn lockout lasts, the timeout whose callback ends it is
\* pending, and it is due within RESPAWN_DELAY
LockoutArmed ==
  state.isRespawning =>
    \E t \in timers : t.id = respawnTimerRef /\ t.due <= now + RESPAWN_DELAY

\* the callback of the timeout ends the lockout
TimeoutEndsLockout ==
  [][RespawnTimeout => ~state'.isRespawning]_vars

\* no step taken during the lockout moves the pending timeout to a later time
\* (violated: respawnPlayer, reached through the stale isRespawning of the
\* running effect, clears the pending timeout and arms a new one)
LockoutNotPostponed ==
  [][(state.isRespawning /\ state'.isRespawning) =>
       \A t \in timers, u \in timers' : u.due <= t.due]_vars


====
